---- MODULE Spec2Model ----
(***************************************************************************)
(* cycling-diner: the two address pipelines.                               *)
(*   export_geojson.py  rows -> address -> geocode -> GeoJSON features     *)
(*   generate_map.py    rows -> addresses -> geocode -> static map images  *)
(*                                                                         *)
(* Strings are sequences of one-character strings, so that strip(),        *)
(* lower() and ", ".join() are computed and not assumed.  A coordinate     *)
(* component is an integer number of 1e-7 degrees (the precision of        *)
(* UTRECHT_CENTER); formatting with :.6f rounds it to 1e-6.  A URL is      *)
(* represented by its marker count and its length in characters.  The      *)
(* geocoding service answers within its contract: an exception, no         *)
(* candidate, or one candidate with a two-number center.                   *)
(***************************************************************************)
EXTENDS Integers, Sequences, FiniteSets, TLC

VARIABLES
    program,        \* "export" (export_geojson.py) or "map" (generate_map.py)
    token,          \* MAPBOX_TOKEN
    csvExists,      \* os.path.exists(csv_path)
    outDirEmpty,    \* os.path.dirname(out_path) = "", as found by the write step
    rows,           \* the data rows of the CSV file
    pc,             \* position of main()
    i,              \* loop index: next row / next address / next chunk
    features,       \* export main: features
    addresses,      \* map main: addresses (result of read_addresses)
    coords,         \* map geocode_all: coords (with duplicates)
    unique_coords,  \* map main: coords (result of geocode_all)
    net,            \* geocoding calls and sleeps, in the order issued
    stderr,         \* diagnostics printed to sys.stderr
    downloads,      \* static-map downloads, in the order issued
    written,        \* the GeoJSON files written (at most one)
    exitCode        \* process exit status, -1 while running

vars == <<program, token, csvExists, outDirEmpty, rows, pc, i, features,
          addresses, coords, unique_coords, net, stderr, downloads, written,
          exitCode>>

\* ------------------------------------------------------------- bounds
MaxRows == 3
MaxPlanN == 250

\* ---------------------------------------------------------- constants
URL_THRESHOLD == 7800
per == 100
StaticBaseLen == 59
MarkerPrefixLen == 13
ZoomSizeLen == 20
AccessTokenKeyLen == 13
LongTokenLen == 7800

\* ------------------------------------------------------------ strings
None == <<"None">>
OrEmpty(v) == IF v = None THEN <<>> ELSE v

IsSpace(c) == c \in {" ", "\t"}

RECURSIVE LStrip(_)
LStrip(s) == IF s # <<>> /\ IsSpace(Head(s)) THEN LStrip(Tail(s)) ELSE s

RECURSIVE RStrip(_)
RStrip(s) ==
    IF s # <<>> /\ IsSpace(s[Len(s)]) THEN RStrip(SubSeq(s, 1, Len(s) - 1)) ELSE s

Strip(s) == RStrip(LStrip(s))

UpperChars == <<"A","B","C","D","E","F","G","H","I","J","K","L","M",
                "N","O","P","Q","R","S","T","U","V","W","X","Y","Z">>
LowerChars == <<"a","b","c","d","e","f","g","h","i","j","k","l","m",
                "n","o","p","q","r","s","t","u","v","w","x","y","z">>

LowerChar(c) ==
    IF \E k \in 1..26 : UpperChars[k] = c
    THEN LowerChars[CHOOSE k \in 1..26 : UpperChars[k] = c]
    ELSE c

Lower(s) == [k \in 1..Len(s) |-> LowerChar(s[k])]

utrecht == <<"u","t","r","e","c","h","t">>
UtrechtNederland ==
    <<"U","t","r","e","c","h","t",","," ","N","e","d","e","r","l","a","n","d">>

RECURSIVE Join(_)
Join(parts) ==
    IF parts = <<>> THEN <<>>
    ELSE IF Len(parts) = 1 THEN parts[1]
    ELSE parts[1] \o <<",", " ">> \o Join(Tail(parts))

NonEmpty(p) == p # <<>>

\* ------------------------------------------------------------- inputs
RowKinds == {
    [Adres |-> <<"a"," ">>, Postcode |-> <<"3">>, Stad |-> <<" ","U","T","r","e","c","h","t">>],
    [Adres |-> <<"a">>,     Postcode |-> <<"3"," ">>, Stad |-> None],
    [Adres |-> <<"b">>,     Postcode |-> None,    Stad |-> <<" ">>],
    [Adres |-> <<"b">>,     Postcode |-> <<"3">>, Stad |-> <<"U","r","k">>],
    [Adres |-> <<" ">>,     Postcode |-> <<"3">>, Stad |-> <<"U","t","r","e","c","h","t">>] }

RowLists == UNION { [1..n -> RowKinds] : n \in 0..MaxRows }

NoToken == [safe |-> 0, esc |-> 0]
ShortToken == [safe |-> 7, esc |-> 1]
LongToken == [safe |-> LongTokenLen, esc |-> 0]

UTRECHT_CENTER == <<51214201, 520907374>>
OtherCoord == <<51100004, 520800006>>
NoCoord == <<0, 0>>

Responses ==
    { [kind |-> "ok", c |-> c] : c \in {UTRECHT_CENTER, OtherCoord} }
    \cup { [kind |-> k, c |-> NoCoord] : k \in {"nocandidate", "exc"} }

\* ------------------------------------------------- geocoding service
\* geocode (export_geojson.py) / geocode_address (generate_map.py): what the
\* call does with the service's response.  raised: urlopen or json.load
\* raised ("exc"); found: a truthy value was returned ("ok"); c: that value.
\* "nocandidate" is a response with an empty features list or with a first
\* candidate that has no center: both make the call return None.
geocode(resp) ==
    [raised |-> resp.kind = "exc",
     found  |-> resp.kind = "ok",
     c      |-> IF resp.kind = "ok" THEN resp.c ELSE NoCoord]

geocode_address(resp) ==
    [raised |-> resp.kind = "exc",
     found  |-> resp.kind = "ok",
     c      |-> IF resp.kind = "ok" THEN resp.c ELSE NoCoord]

CallEvent(row, addr, resp) == [op |-> "geocode", row |-> row, addr |-> addr, resp |-> resp]
SleepEvent == [op |-> "sleep", row |-> -1, addr |-> <<>>,
               resp |-> [kind |-> "none", c |-> NoCoord]]

\* ----------------------------------------------------- export_geojson.py
read_rows(rs) ==
    [k \in 1..Len(rs) |->
        [Adres |-> rs[k].Adres, Postcode |-> rs[k].Postcode, Stad |-> rs[k].Stad,
         row |-> k - 1]]

build_full_address(row) ==
    LET adres == Strip(OrEmpty(row.Adres))
        postcode == Strip(OrEmpty(row.Postcode))
    IN Join(SelectSeq(<<adres, postcode, UtrechtNederland>>, NonEmpty))

\* mutant: the city compared without lower()
ExportCityExcluded_NoLower(row) ==
    LET stad == Strip(OrEmpty(row.Stad))
    IN stad # <<>> /\ stad # utrecht

ExportCityExcluded(row) ==
    LET stad == Lower(Strip(OrEmpty(row.Stad)))
    IN stad # <<>> /\ stad # utrecht

sanitize_props(row) ==
    [adres |-> Strip(OrEmpty(row.Adres)),
     postcode |-> Strip(OrEmpty(row.Postcode)),
     stad |-> Strip(OrEmpty(row.Stad)),
     row |-> row.row]

\* mutant: the point written as [lat, lon]
Feature_LatLon(coord, row) ==
    [type |-> "Feature",
     coordinates |-> <<coord[2], coord[1]>>,
     properties |-> sanitize_props(row)]

Feature(coord, row) ==
    [type |-> "Feature",
     coordinates |-> <<coord[1], coord[2]>>,
     properties |-> sanitize_props(row)]

\* The events of one geocoded row of the export loop, pos being the row's
\* zero-based position in the file: the call, and the sleep when the code
\* reaches it.
ExportRowEvents(pos, address, resp) ==
    IF geocode(resp).found
    THEN <<CallEvent(pos, address, resp), SleepEvent>>
    ELSE <<CallEvent(pos, address, resp)>>

ExportRowDiag(address, resp) ==
    IF geocode(resp).raised
    THEN <<[msg |-> "failed", addr |-> address], [msg |-> "noresult", addr |-> address]>>
    ELSE IF ~geocode(resp).found
    THEN <<[msg |-> "noresult", addr |-> address]>>
    ELSE <<>>

ExportStartup ==
    /\ program = "export"
    /\ pc = "start"
    /\ IF token = NoToken \/ ~csvExists
       THEN pc' = "done" /\ exitCode' = 1
       ELSE pc' = "rows" /\ exitCode' = exitCode
    /\ UNCHANGED <<program, token, csvExists, outDirEmpty, rows, i, features,
                   addresses, coords, unique_coords, net, stderr, downloads, written>>

ExportRow ==
    /\ program = "export"
    /\ pc = "rows"
    /\ i <= Len(rows)
    /\ LET row == read_rows(rows)[i]
           address == build_full_address(row)
       IN IF ExportCityExcluded(row) \/ address = <<>>
          THEN UNCHANGED <<features, net, stderr>>
          ELSE \E resp \in Responses :
                  /\ net' = net \o ExportRowEvents(i - 1, address, resp)
                  /\ stderr' = stderr \o ExportRowDiag(address, resp)
                  /\ features' = IF geocode(resp).found
                                 THEN Append(features, Feature(geocode(resp).c, row))
                                 ELSE features
    /\ i' = i + 1
    /\ UNCHANGED <<program, token, csvExists, outDirEmpty, rows, pc, addresses,
                   coords, unique_coords, downloads, written, exitCode>>

ExportWrite ==
    /\ program = "export"
    /\ pc = "rows"
    /\ i > Len(rows)
    /\ \E dirEmpty \in BOOLEAN :
          /\ outDirEmpty' = dirEmpty
          /\ IF dirEmpty
             THEN written' = written /\ exitCode' = 1
             ELSE written' = Append(written, [type |-> "FeatureCollection",
                                             features |-> features])
                  /\ exitCode' = 0
    /\ pc' = "done"
    /\ UNCHANGED <<program, token, csvExists, rows, i, features,
                   addresses, coords, unique_coords, net, stderr, downloads>>

\* ------------------------------------------------------- generate_map.py
\* read_addresses, lines 19-32: the address of every row that has a street
\* and passes the city filter, in row order.
MapRowKept(row) ==
    LET stad == Strip(OrEmpty(row.Stad))
        adres == Strip(OrEmpty(row.Adres))
    IN /\ adres # <<>>
       /\ ~(stad # <<>> /\ Lower(stad) # utrecht)

MapRowAddress(row) ==
    LET adres == Strip(OrEmpty(row.Adres))
        postcode == Strip(OrEmpty(row.Postcode))
    IN Join(SelectSeq(<<adres, postcode, UtrechtNederland>>, NonEmpty))

RECURSIVE collect_addresses(_)
collect_addresses(rs) ==
    IF rs = <<>> THEN <<>>
    ELSE IF MapRowKept(Head(rs))
    THEN <<MapRowAddress(Head(rs))>> \o collect_addresses(Tail(rs))
    ELSE collect_addresses(Tail(rs))

\* The dedup loop of read_addresses (lines 34-39) and geocode_all (78-83).
RECURSIVE DedupLoop(_, _, _)
DedupLoop(items, seen, unique) ==
    IF items = <<>> THEN unique
    ELSE IF Head(items) \notin seen
    THEN DedupLoop(Tail(items), seen \cup {Head(items)}, Append(unique, Head(items)))
    ELSE DedupLoop(Tail(items), seen, unique)

\* mutant: the loop never adds to seen
RECURSIVE DedupLoop_SeenNotUpdated(_, _, _)
DedupLoop_SeenNotUpdated(items, seen, unique) ==
    IF items = <<>> THEN unique
    ELSE IF Head(items) \notin seen
    THEN DedupLoop_SeenNotUpdated(Tail(items), seen, Append(unique, Head(items)))
    ELSE DedupLoop_SeenNotUpdated(Tail(items), seen, unique)

Dedup_SeenNotUpdated(items) == DedupLoop_SeenNotUpdated(items, {}, <<>>)

Dedup(items) == DedupLoop(items, {}, <<>>)

read_addresses(rs) == Dedup(collect_addresses(rs))

\* f"{x:.6f}": x rounded to six decimals; its length in characters.
Round6(v) ==
    LET a == IF v < 0 THEN -v ELSE v
        q == a \div 10
        r == a % 10
    IN IF r > 5 \/ (r = 5 /\ q % 2 = 1) THEN q + 1 ELSE q

RECURSIVE Digits(_)
Digits(n) == IF n < 10 THEN 1 ELSE 1 + Digits(n \div 10)

Fmt6Len(v) == (IF v < 0 THEN 1 ELSE 0) + Digits(Round6(v) \div 1000000) + 1 + 6

MarkerLen(c) == MarkerPrefixLen + Fmt6Len(c[1]) + 1 + Fmt6Len(c[2]) + 1

\* The total length of the marker tokens cs[lo..hi], summed by halves to
\* keep the evaluation shallow.
RECURSIVE SumMarkerLen(_, _, _)
SumMarkerLen(cs, lo, hi) ==
    IF lo > hi THEN 0
    ELSE IF lo = hi THEN MarkerLen(cs[lo])
    ELSE LET mid == (lo + hi) \div 2
         IN SumMarkerLen(cs, lo, mid) + SumMarkerLen(cs, mid + 1, hi)

build_marker_overlays(cs) ==
    [n |-> Len(cs),
     len |-> SumMarkerLen(cs, 1, Len(cs)) + (IF Len(cs) > 0 THEN Len(cs) - 1 ELSE 0)]

\* urlencode({'access_token': token}): one character for each unreserved
\* character, three for each escaped one.
urlencode(tok) == AccessTokenKeyLen + tok.safe + 3 * tok.esc

build_static_url(overlays, tok) ==
    [n |-> overlays.n,
     len |-> StaticBaseLen + overlays.len + 1 + Fmt6Len(UTRECHT_CENTER[1]) + 1
             + Fmt6Len(UTRECHT_CENTER[2]) + ZoomSizeLen + 1 + urlencode(tok)]

Min(a, b) == IF a < b THEN a ELSE b

\* mutant: the slice taken as iterable[i:i+n-1]
chunk_ShortSlice(iterable, n) ==
    [k \in 1..((Len(iterable) + n - 1) \div n) |->
        SubSeq(iterable, (k - 1) * n + 1, Min(k * n - 1, Len(iterable)))]

chunk(iterable, n) ==
    [k \in 1..((Len(iterable) + n - 1) \div n) |->
        SubSeq(iterable, (k - 1) * n + 1, Min(k * n, Len(iterable)))]

SingleShot(url) == url.len < URL_THRESHOLD

MapStartup ==
    /\ program = "map"
    /\ pc = "start"
    /\ IF token = NoToken \/ ~csvExists
       THEN pc' = "done" /\ exitCode' = 1
       ELSE pc' = "read" /\ exitCode' = exitCode
    /\ UNCHANGED <<program, token, csvExists, outDirEmpty, rows, i, features,
                   addresses, coords, unique_coords, net, stderr, downloads, written>>

MapReadAddresses ==
    /\ program = "map"
    /\ pc = "read"
    /\ addresses' = read_addresses(rows)
    /\ IF addresses' = <<>>
       THEN pc' = "done" /\ exitCode' = 0
       ELSE pc' = "geocode" /\ exitCode' = exitCode
    /\ UNCHANGED <<program, token, csvExists, outDirEmpty, rows, i, features,
                   coords, unique_coords, net, stderr, downloads, written>>

\* mutant: the warning of the no-result branch is missing
MapGeocodeDiag_NoWarning(addr, resp) ==
    IF geocode_address(resp).raised
    THEN <<[msg |-> "failed", addr |-> addr]>>
    ELSE <<>>

MapGeocodeDiag(addr, resp) ==
    IF geocode_address(resp).raised
    THEN <<[msg |-> "failed", addr |-> addr], [msg |-> "noresult", addr |-> addr]>>
    ELSE IF ~geocode_address(resp).found
    THEN <<[msg |-> "noresult", addr |-> addr]>>
    ELSE <<>>

MapCallEvents(idx, addr, resp) == <<CallEvent(idx, addr, resp), SleepEvent>>

MapGeocodeOne ==
    /\ program = "map"
    /\ pc = "geocode"
    /\ i <= Len(addresses)
    /\ \E resp \in Responses :
          /\ net' = net \o MapCallEvents(i, addresses[i], resp)
          /\ stderr' = stderr \o MapGeocodeDiag(addresses[i], resp)
          /\ coords' = IF geocode_address(resp).found
                       THEN Append(coords, geocode_address(resp).c)
                       ELSE coords
    /\ i' = i + 1
    /\ UNCHANGED <<program, token, csvExists, outDirEmpty, rows, pc, features,
                   addresses, unique_coords, downloads, written, exitCode>>

MapGeocodeReturn ==
    /\ program = "map"
    /\ pc = "geocode"
    /\ i > Len(addresses)
    /\ unique_coords' = Dedup(coords)
    /\ IF unique_coords' = <<>>
       THEN pc' = "done" /\ exitCode' = 0
       ELSE pc' = "plan" /\ exitCode' = exitCode
    /\ UNCHANGED <<program, token, csvExists, outDirEmpty, rows, i, features,
                   addresses, coords, net, stderr, downloads, written>>

MapPlan ==
    /\ program = "map"
    /\ pc = "plan"
    /\ IF SingleShot(build_static_url(build_marker_overlays(unique_coords), token))
       THEN pc' = "single"
       ELSE pc' = "chunks"
    /\ i' = 1
    /\ UNCHANGED <<program, token, csvExists, outDirEmpty, rows, features,
                   addresses, coords, unique_coords, net, stderr, downloads,
                   written, exitCode>>

Job(sub, tok, out, ok) ==
    [sub |-> sub, url |-> build_static_url(build_marker_overlays(sub), tok),
     out |-> out, ok |-> ok]

MapDownloadSingle ==
    /\ program = "map"
    /\ pc = "single"
    /\ \E ok \in BOOLEAN :
          /\ downloads' = Append(downloads, Job(unique_coords, token, 0, ok))
          /\ exitCode' = IF ok THEN 0 ELSE 1
    /\ pc' = "done"
    /\ UNCHANGED <<program, token, csvExists, outDirEmpty, rows, i, features,
                   addresses, coords, unique_coords, net, stderr, written>>

MapDownloadChunk ==
    /\ program = "map"
    /\ pc = "chunks"
    /\ LET subs == chunk(unique_coords, per)
       IN \E ok \in BOOLEAN :
             /\ downloads' = Append(downloads, Job(subs[i], token, i, ok))
             /\ IF ~ok THEN pc' = "done" /\ exitCode' = 1
                ELSE IF i = Len(subs) THEN pc' = "done" /\ exitCode' = 0
                ELSE pc' = pc /\ exitCode' = exitCode
    /\ i' = i + 1
    /\ UNCHANGED <<program, token, csvExists, outDirEmpty, rows, features,
                   addresses, coords, unique_coords, net, stderr, written>>

\* ------------------------------------------------------ specifications
Init ==
    /\ program \in {"export", "map"}
    /\ token \in IF program = "map" THEN {NoToken, ShortToken, LongToken}
                 ELSE {NoToken, ShortToken}
    /\ csvExists \in BOOLEAN
    /\ outDirEmpty = FALSE
    /\ rows \in IF csvExists THEN RowLists ELSE {<<>>}
    /\ pc = "start"
    /\ i = 1
    /\ features = <<>>
    /\ addresses = <<>>
    /\ coords = <<>>
    /\ unique_coords = <<>>
    /\ net = <<>>
    /\ stderr = <<>>
    /\ downloads = <<>>
    /\ written = <<>>
    /\ exitCode = -1

Next ==
    \/ ExportStartup
    \/ ExportRow
    \/ ExportWrite
    \/ MapStartup
    \/ MapReadAddresses
    \/ MapGeocodeOne
    \/ MapGeocodeReturn
    \/ MapPlan
    \/ MapDownloadSingle
    \/ MapDownloadChunk

Spec == Init /\ [][Next]_vars

\* The planning and download part of generate_map.main (lines 139-160),
\* entered with N resolved, distinct coordinates.
PlanShapes == { UTRECHT_CENTER, <<-1790000000, -890000000>> }

PlanCoords(n, base) == [k \in 1..n |-> <<base[1] + 10 * k, base[2]>>]

InitPlan ==
    /\ program = "map"
    /\ token \in {ShortToken, LongToken}
    /\ csvExists = TRUE
    /\ outDirEmpty = FALSE
    /\ rows = <<>>
    /\ pc = "plan"
    /\ i = 1
    /\ features = <<>>
    /\ addresses = <<>>
    /\ \E n \in 1..MaxPlanN : \E base \in PlanShapes :
          /\ coords = PlanCoords(n, base)
          /\ unique_coords = PlanCoords(n, base)
    /\ net = <<>>
    /\ stderr = <<>>
    /\ downloads = <<>>
    /\ written = <<>>
    /\ exitCode = -1

NextPlan ==
    \/ MapPlan
    \/ MapDownloadSingle
    \/ MapDownloadChunk

SpecPlan == InitPlan /\ [][NextPlan]_vars

\* ----------------------------------------------------- claim vocabulary
IsGeocode(e) == e.op = "geocode"
Calls == SelectSeq(net, IsGeocode)
IsOkCall(e) == e.op = "geocode" /\ e.resp.kind = "ok"
OkCalls == SelectSeq(net, IsOkCall)
FailedCalls == { k \in DOMAIN Calls : Calls[k].resp.kind # "ok" }

Started == token # NoToken /\ csvExists /\ pc # "start"
AddressesRead == program = "map" /\ Started /\ pc # "read"
GeocodeAllReturned ==
    /\ program = "map"
    /\ \/ pc \in {"plan", "single", "chunks"}
       \/ pc = "done" /\ Started /\ addresses # <<>>

\* t equals w (given in lower case) ignoring letter case
EqIgnoreCase(t, w) ==
    /\ Len(t) = Len(w)
    /\ \A k \in 1..Len(w) :
          \/ t[k] = w[k]
          \/ \E j \in 1..26 : LowerChars[j] = w[k] /\ UpperChars[j] = t[k]

\* the record's trimmed city is non-empty and is not "utrecht" ignoring case
CityExcludes(r) ==
    LET t == Strip(OrEmpty(r.Stad))
    IN t # <<>> /\ ~EqIgnoreCase(t, utrecht)

\* the record's street field is empty or whitespace-only
StreetEmpty(r) == \A k \in DOMAIN OrEmpty(r.Adres) : IsSpace(OrEmpty(r.Adres)[k])

CalledForRow(pos) == \E k \in DOMAIN Calls : Calls[k].row = pos
FeatureForRow(pos) == \E k \in DOMAIN features : features[k].properties.row = pos

\* C1: in both pipelines every geocoding call is followed by the rate-limit
\* delay before the next geocoding call, whatever the call's outcome: no two
\* geocoding calls are issued with no sleep between them.
C1_DelayAfterEveryCall ==
    \A k \in 1..(Len(net) - 1) : net[k].op = "geocode" => net[k + 1].op = "sleep"

\* C2: a record whose street field is empty or whitespace-only triggers no
\* geocoding call and produces no Feature (export), and every address of the
\* address list and every geocoded address comes from a record that has a
\* street (map).
C2_EmptyStreetSkipped ==
    /\ program = "export" =>
          \A k \in DOMAIN rows :
              StreetEmpty(rows[k]) => ~CalledForRow(k - 1) /\ ~FeatureForRow(k - 1)
    /\ program = "map" =>
          /\ \A k \in DOMAIN addresses :
                \E r \in DOMAIN rows :
                    ~StreetEmpty(rows[r]) /\ MapRowAddress(rows[r]) = addresses[k]
          /\ \A k \in DOMAIN Calls :
                \E r \in DOMAIN rows :
                    ~StreetEmpty(rows[r]) /\ MapRowAddress(rows[r]) = Calls[k].addr

\* C3: a record whose trimmed city is non-empty and differs from "utrecht"
\* ignoring case never triggers a geocoding call and never contributes an
\* address or Feature; a record whose city is empty or matches in any letter
\* case is not excluded: once processed, a record with a street and such a
\* city has been geocoded (export) or has its address in the list (map).
C3_LocalityFilter ==
    /\ program = "export" =>
          \A k \in DOMAIN rows :
              /\ CityExcludes(rows[k]) => ~CalledForRow(k - 1) /\ ~FeatureForRow(k - 1)
              /\ (~CityExcludes(rows[k]) /\ ~StreetEmpty(rows[k]) /\ Started /\ k < i)
                    => CalledForRow(k - 1)
    /\ AddressesRead =>
          { addresses[k] : k \in DOMAIN addresses }
            = { MapRowAddress(rows[r]) :
                  r \in { x \in DOMAIN rows : ~CityExcludes(rows[x]) /\ ~StreetEmpty(rows[x]) } }
    /\ program = "map" =>
          \A k \in DOMAIN Calls :
              \E r \in DOMAIN rows :
                  ~CityExcludes(rows[r]) /\ MapRowAddress(rows[r]) = Calls[k].addr

\* C3 witness: a finished export run whose input holds an excluded record
\* and a geocoded record whose city matches only after trimming and
\* case-folding.
C3_Witness ==
    /\ program = "export"
    /\ pc = "done"
    /\ \E k \in DOMAIN rows : CityExcludes(rows[k]) /\ k < i
    /\ \E k \in DOMAIN rows :
          /\ OrEmpty(rows[k].Stad) # utrecht
          /\ EqIgnoreCase(Strip(OrEmpty(rows[k].Stad)), utrecht)
          /\ CalledForRow(k - 1)

\* C4 vocabulary: the jobs issued so far, and the jobs the claim expects.
JobSubs == [k \in DOMAIN downloads |-> downloads[k].sub]

RECURSIVE Concat(_)
Concat(ss) == IF ss = <<>> THEN <<>> ELSE Head(ss) \o Concat(Tail(ss))

FullUrlShort ==
    build_static_url(build_marker_overlays(unique_coords), token).len < 7800

ExpectedJobCount ==
    IF FullUrlShort THEN 1 ELSE (Len(unique_coords) + 99) \div 100

ExpectedJobSize(k) ==
    IF FullUrlShort THEN Len(unique_coords)
    ELSE IF k < ExpectedJobCount THEN 100
    ELSE IF Len(unique_coords) % 100 = 0 THEN 100
    ELSE Len(unique_coords) % 100

\* C4: for N >= 1 unique coordinates, if the full request URL is shorter than
\* 7800 characters exactly one job covering all N coordinates is produced;
\* otherwise exactly ceil(N/100) jobs, each of 100 coordinates except the last
\* (N mod 100, or 100 when N is a multiple of 100), whose concatenation in
\* order is the coordinate sequence.  The jobs are issued one at a time: at
\* every moment they are the first jobs of that plan, and a run that ends
\* with exit code 0 has issued them all.
C4_BatchPlanning ==
    (pc \in {"single", "chunks", "done"} /\ unique_coords # <<>>) =>
        /\ Len(downloads) <= ExpectedJobCount
        /\ \A k \in DOMAIN downloads : Len(JobSubs[k]) = ExpectedJobSize(k)
        /\ Concat(JobSubs) = SubSeq(unique_coords, 1, Len(Concat(JobSubs)))
        /\ (pc = "done" /\ exitCode = 0) =>
              /\ Len(downloads) = ExpectedJobCount
              /\ Concat(JobSubs) = unique_coords

\* C4 witness: 250 coordinates, split path, three jobs issued, exit code 0.
C4_Witness ==
    /\ pc = "done"
    /\ exitCode = 0
    /\ Len(unique_coords) = 250
    /\ ~FullUrlShort
    /\ Len(downloads) = 3
    /\ Len(downloads[3].sub) = 50

\* C5 vocabulary.
DiagFor(addr) == \E k \in DOMAIN stderr : stderr[k].addr = addr

FailedCallsContributeNothing ==
    /\ \A k \in FailedCalls : DiagFor(Calls[k].addr)
    /\ program = "export" =>
          /\ Len(features) = Len(OkCalls)
          /\ \A k \in FailedCalls : ~FeatureForRow(Calls[k].row)
    /\ program = "map" =>
          coords = [k \in DOMAIN OkCalls |-> OkCalls[k].resp.c]

LaterItemsStillGeocoded ==
    /\ (program = "export" /\ pc = "done") =>
          \A k \in FailedCalls :
              \A r \in DOMAIN rows :
                  (r - 1 > Calls[k].row /\ ~CityExcludes(rows[r]) /\ ~StreetEmpty(rows[r]))
                      => CalledForRow(r - 1)
    /\ GeocodeAllReturned =>
          \A k \in FailedCalls :
              \A a \in DOMAIN addresses :
                  a > Calls[k].row =>
                      \E c \in DOMAIN Calls : Calls[c].row = a /\ Calls[c].addr = addresses[a]

ExportOutputReached == Len(written) = 1 \/ outDirEmpty

FirstIndex(input, x) == CHOOSE k \in DOMAIN input :
                            input[k] = x /\ \A j \in 1..(k - 1) : input[j] # x

FirstOccurrences(input, output) ==
    /\ \A p, q \in DOMAIN output : p # q => output[p] # output[q]
    /\ { output[k] : k \in DOMAIN output } = { input[k] : k \in DOMAIN input }
    /\ \A p, q \in DOMAIN output :
          p < q => FirstIndex(input, output[p]) < FirstIndex(input, output[q])

\* C6: in the map pipeline the address list returned by read_addresses and
\* the coordinate list returned by geocode_all each hold every distinct value
\* of their input exactly once, ordered by first occurrence.
C6_Dedup ==
    /\ AddressesRead => FirstOccurrences(collect_addresses(rows), addresses)
    /\ GeocodeAllReturned => FirstOccurrences(coords, unique_coords)

\* C6 witness: both inputs held a duplicate.
C6_Witness ==
    /\ GeocodeAllReturned
    /\ Len(addresses) < Len(collect_addresses(rows))
    /\ Len(unique_coords) < Len(coords)

\* C7: the feature list of the GeoJSON export holds exactly one Feature per
\* record that passed the locality filter, had a non-empty address and was
\* geocoded successfully, and none for any other record, in input row order;
\* each Feature's coordinates are [lon, lat] as returned for that record and
\* its properties.row is the record's zero-based position in the input file;
\* the FeatureCollection written holds that list.
C7_FeaturesMatchRecords ==
    program = "export" =>
        /\ Len(features) = Len(OkCalls)
        /\ \A k \in DOMAIN features :
              /\ features[k].properties.row = OkCalls[k].row
              /\ features[k].coordinates[1] = OkCalls[k].resp.c[1]
              /\ features[k].coordinates[2] = OkCalls[k].resp.c[2]
              /\ features[k].properties.adres = Strip(OrEmpty(rows[OkCalls[k].row + 1].Adres))
        /\ \A p, q \in DOMAIN Calls : p < q => Calls[p].row < Calls[q].row
        /\ \A k \in DOMAIN Calls :
              /\ Calls[k].row + 1 \in DOMAIN rows
              /\ ~CityExcludes(rows[Calls[k].row + 1])
              /\ Calls[k].addr # <<>>
              /\ Calls[k].addr = build_full_address(rows[Calls[k].row + 1])
        /\ \A k \in DOMAIN written :
              written[k].type = "FeatureCollection" /\ written[k].features = features

\* C7 witness: a written collection of two Features whose first is the
\* record at position 1, the record at position 0 having produced none.
C7_Witness ==
    /\ program = "export"
    /\ pc = "done"
    /\ Len(written) = 1
    /\ Len(features) = 2
    /\ features[1].properties.row = 1
    /\ features[1].coordinates # features[2].coordinates

\* C8: with the credential missing or the input file absent the run ends with
\* exit code 1 having issued no geocoding call and no download and written no
\* output; every run that starts with both present and in which no download
\* fails ends with exit code 0.
C8_StartupAndExit ==
    /\ (token = NoToken \/ ~csvExists) =>
          /\ net = <<>> /\ downloads = <<>> /\ written = <<>>
          /\ pc = "done" => exitCode = 1
    /\ (token # NoToken /\ csvExists /\ pc = "done"
          /\ \A k \in DOMAIN downloads : downloads[k].ok) => exitCode = 0

\* C9: every static-map URL the map pipeline downloads is shorter than 7800
\* characters, on the single-shot path and for every chunk of the split path.
C9_UrlsUnderThreshold ==
    \A k \in DOMAIN downloads : downloads[k].url.len < 7800

\* C10: within one run the geocoding service is called at most once for any
\* given address string.
C10_OneCallPerAddress ==
    \A p, q \in DOMAIN Calls : p # q => Calls[p].addr # Calls[q].addr

====
